---- MODULE Spec2Model ----
(***************************************************************************)
(* HISet / HIBag: containers that keep one Vec<T> in ascending Ord order   *)
(* and are indexable by position.  Three types are modelled:               *)
(*   "HISet"    src/src/set.rs   (insert/remove/contains/index/clear,      *)
(*                                FromIterator, IndexMut)                  *)
(*   "HIBag"    src/src/bag.rs   (insert/remove/contains/index,            *)
(*                                FromIterator)                            *)
(*   "LibHISet" src/src/lib.rs   (the copy of HISet without clear and      *)
(*                                FromIterator)                            *)
(* Elements are integers 1..MaxVal under their usual order.  Indices are   *)
(* 0-based as in the source; TLA+ sequences are 1-based, so element i of   *)
(* the Vec is s[i + 1].                                                    *)
(***************************************************************************)
EXTENDS Integers, Sequences, FiniteSets

\* Bounds of the model.
MaxVal == 3
MaxLen == 3

Values == 1 .. MaxVal
\* Index arguments tried: every valid index, len() itself and one beyond.
Indices == 0 .. (MaxLen + 1)
SeqsUpTo(n) == UNION { [1 .. k -> Values] : k \in 0 .. n }

VARIABLES
    kind,   \* which type the container under test is
    items,  \* its field `items: Vec<T>`
    call,   \* the last call that returned: op, arguments, result, items before
    net,    \* caller's tally per value: inserts minus removals (presence for sets)
    run,    \* caller's tally of a run insert(x); insert(x); remove(x)
    other,  \* the `items` of a second container built beside the first
    feed    \* the two value lists the two containers are built from, and progress

vars == <<kind, items, call, net, run, other, feed>>

----------------------------------------------------------------------------
\* Vec<T> and slice primitives used by the source

IsSorted(s) == \A i \in 1 .. (Len(s) - 1) : s[i] <= s[i + 1]
IsStrict(s) == \A i \in 1 .. (Len(s) - 1) : s[i] < s[i + 1]
Range(s) == { s[i] : i \in DOMAIN s }
Count(s, x) == Cardinality({ i \in DOMAIN s : s[i] = x })

\* Vec::insert(i, x): shifts everything from index i to the right.
VecInsert(s, i, x) == SubSeq(s, 1, i) \o <<x>> \o SubSeq(s, i + 1, Len(s))
\* Vec::remove(i): shifts everything after index i to the left.
VecRemove(s, i) == SubSeq(s, 1, i) \o SubSeq(s, i + 2, Len(s))

Ok(i) == [ok |-> TRUE, i |-> i]
Err(i) == [ok |-> FALSE, i |-> i]

\* A bisection of s[lo..hi) for x. The probe index is left free: the standard
\* library fixes neither the probe nor which of several equal elements is found.
RECURSIVE Bisect(_, _, _, _)
Bisect(s, x, lo, hi) ==
    IF lo >= hi THEN { Err(lo) }
    ELSE UNION { IF s[m + 1] = x THEN { Ok(m) }
                 ELSE IF s[m + 1] < x THEN Bisect(s, x, m + 1, hi)
                 ELSE Bisect(s, x, lo, m) : m \in lo .. (hi - 1) }

\* slice::binary_search: the set of results a call may return. On a sorted slice
\* it is Ok(i) for some i with s[i] = x, or Err(insertion point). On a slice that
\* is not sorted the result is unspecified: any Ok(i) with s[i] = x, any Err(i).
binary_search(s, x) ==
    IF IsSorted(s) THEN Bisect(s, x, 0, Len(s))
    ELSE { Ok(i) : i \in { j \in 0 .. (Len(s) - 1) : s[j + 1] = x } }
         \cup { Err(i) : i \in 0 .. Len(s) }

----------------------------------------------------------------------------
\* Results of a call

RBool(b) == [tag |-> "bool", flag |-> b, val |-> 0]
RSome(v) == [tag |-> "some", flag |-> FALSE, val |-> v]
RNone == [tag |-> "none", flag |-> FALSE, val |-> 0]
RRef(v) == [tag |-> "ref", flag |-> FALSE, val |-> v]
RVal(v) == [tag |-> "value", flag |-> FALSE, val |-> v]
RUnit == [tag |-> "unit", flag |-> FALSE, val |-> 0]
\* assert!(index < len) failed, or Vec's own bounds check did.
RPanic == [tag |-> "panic", flag |-> FALSE, val |-> 0]

\* An outcome: the Vec after the call and what the call returned.
Out(s, r) == [items |-> s, ret |-> r]

----------------------------------------------------------------------------
\* src/src/set.rs: HISet<T>

set_new == <<>>

\* A variant that reports the opposite of what it found.
set_insert_flipped(s, x) ==
    { IF r.ok THEN Out(s, RBool(FALSE)) ELSE Out(VecInsert(s, r.i, x), RBool(TRUE))
      : r \in binary_search(s, x) }
\* A variant that inserts at the reported index in both arms, as the bag does.
set_insert_always(s, x) ==
    { Out(VecInsert(s, r.i, x), RBool(r.ok)) : r \in binary_search(s, x) }
\* A variant that pushes a new item at the end instead of at the found place.
set_insert_push(s, x) ==
    { IF r.ok THEN Out(s, RBool(TRUE)) ELSE Out(Append(s, x), RBool(FALSE))
      : r \in binary_search(s, x) }
\* HISet::insert: Ok(_) => true; Err(i) => { items.insert(i, item); false }
set_insert(s, x) ==
    { IF r.ok THEN Out(s, RBool(TRUE)) ELSE Out(VecInsert(s, r.i, x), RBool(FALSE))
      : r \in binary_search(s, x) }

\* A variant that also removes on a miss, at the insertion point when in range.
set_remove_on_miss(s, x) ==
    { IF r.ok \/ r.i < Len(s) THEN Out(VecRemove(s, r.i), RSome(s[r.i + 1]))
      ELSE Out(s, RNone) : r \in binary_search(s, x) }
\* HISet::remove: Ok(i) => Some(items.remove(i)); Err(_) => None
set_remove(s, x) ==
    { IF r.ok THEN Out(VecRemove(s, r.i), RSome(s[r.i + 1])) ELSE Out(s, RNone)
      : r \in binary_search(s, x) }

\* A variant that only looks at the middle element.
set_contains_probe_once(s, x) ==
    { Out(s, RBool(Len(s) > 0 /\ s[(Len(s) \div 2) + 1] = x)) }
\* HISet::contains: items.binary_search(item).is_ok()
set_contains(s, x) == { Out(s, RBool(r.ok)) : r \in binary_search(s, x) }

\* HISet::len
set_len(s) == Len(s)

\* HISet::iter: the elements in Vec order.
set_iter(s) == s

\* A variant that clamps the index to the last element instead of asserting.
set_remove_index_clamped(s, i) ==
    IF Len(s) = 0 THEN Out(s, RPanic)
    ELSE IF i < Len(s) THEN Out(VecRemove(s, i), RVal(s[i + 1]))
    ELSE Out(VecRemove(s, Len(s) - 1), RVal(s[Len(s)]))
\* HISet::remove_index: assert!(index < len); items.remove(index)
set_remove_index(s, i) ==
    IF i < Len(s) THEN Out(VecRemove(s, i), RVal(s[i + 1])) ELSE Out(s, RPanic)

\* HISet::get_index: assert!(index < len); &items[index]
set_get_index(s, i) ==
    IF i < Len(s) THEN Out(s, RRef(s[i + 1])) ELSE Out(s, RPanic)

\* HISet::get_index_mut: assert!(index < len); returns a shared reference (&T).
set_get_index_mut(s, i) ==
    IF i < Len(s) THEN Out(s, RRef(s[i + 1])) ELSE Out(s, RPanic)

\* HISet::clear
set_clear(s) == Out(<<>>, RUnit)

\* Index<usize>::index: &items[index], Vec's own bounds check.
set_index(s, i) ==
    IF i < Len(s) THEN Out(s, RRef(s[i + 1])) ELSE Out(s, RPanic)

\* A variant that restores the order after the write.
set_index_mut_resorted(s, i, v) ==
    IF i < Len(s)
    THEN Out(CHOOSE t \in [1 .. Len(s) -> Values] :
                 /\ IsSorted(t)
                 /\ \A y \in Values : Count(t, y) = Count([s EXCEPT ![i + 1] = v], y),
             RUnit)
    ELSE Out(s, RPanic)
\* IndexMut<usize>::index_mut followed by the caller's store: set[i] = v.
set_index_mut(s, i, v) ==
    IF i < Len(s) THEN Out([s EXCEPT ![i + 1] = v], RUnit) ELSE Out(s, RPanic)

\* FromIterator::from_iter: a new set, then insert of each item in turn.
RECURSIVE set_from_iter(_)
set_from_iter(src) ==
    IF src = <<>> THEN { set_new }
    ELSE UNION { { o.items : o \in set_insert(acc, src[Len(src)]) }
                 : acc \in set_from_iter(SubSeq(src, 1, Len(src) - 1)) }

\* #[derive(Hash)]: what is fed to the hasher, the length and then each element.
set_hash(s) == <<Len(s)>> \o s

\* #[derive(PartialEq)]: element-wise equality of the two Vecs.
set_eq(a, b) == Len(a) = Len(b) /\ \A i \in DOMAIN a : a[i] = b[i]

----------------------------------------------------------------------------
\* src/src/bag.rs: HIBag<T>

bag_new == <<>>

\* A variant that keeps one copy, as the set does.
bag_insert_dedup(s, x) ==
    { IF r.ok THEN Out(s, RUnit) ELSE Out(VecInsert(s, r.i, x), RUnit)
      : r \in binary_search(s, x) }
\* A variant that pushes the item at the end.
bag_insert_push(s, x) == { Out(Append(s, x), RUnit) }
\* HIBag::insert: Ok(i) | Err(i) => items.insert(i, item)
bag_insert(s, x) ==
    { Out(VecInsert(s, r.i, x), RUnit) : r \in binary_search(s, x) }

\* A variant that removes every occurrence.
bag_remove_all(s, x) ==
    { IF r.ok THEN Out(SelectSeq(s, LAMBDA y : y # x), RSome(s[r.i + 1]))
      ELSE Out(s, RNone) : r \in binary_search(s, x) }
\* HIBag::remove: Ok(i) => Some(items.remove(i)); Err(_) => None
bag_remove(s, x) ==
    { IF r.ok THEN Out(VecRemove(s, r.i), RSome(s[r.i + 1])) ELSE Out(s, RNone)
      : r \in binary_search(s, x) }

\* HIBag::contains: items.binary_search(item).is_ok()
bag_contains(s, x) == { Out(s, RBool(r.ok)) : r \in binary_search(s, x) }

\* HIBag::len
bag_len(s) == Len(s)

\* HIBag::iter: the elements in Vec order.
bag_iter(s) == s

\* HIBag::remove_index: assert!(index < len); items.remove(index)
bag_remove_index(s, i) ==
    IF i < Len(s) THEN Out(VecRemove(s, i), RVal(s[i + 1])) ELSE Out(s, RPanic)

\* HIBag::get_index: assert!(index < len); &items[index]
bag_get_index(s, i) ==
    IF i < Len(s) THEN Out(s, RRef(s[i + 1])) ELSE Out(s, RPanic)

\* Index<usize>::index: &items[index], Vec's own bounds check.
bag_index(s, i) ==
    IF i < Len(s) THEN Out(s, RRef(s[i + 1])) ELSE Out(s, RPanic)

\* FromIterator::from_iter: a new bag, then insert of each item in turn.
RECURSIVE bag_from_iter(_)
bag_from_iter(src) ==
    IF src = <<>> THEN { bag_new }
    ELSE UNION { { o.items : o \in bag_insert(acc, src[Len(src)]) }
                 : acc \in bag_from_iter(SubSeq(src, 1, Len(src) - 1)) }

\* #[derive(Hash)]: what is fed to the hasher, the length and then each element.
bag_hash(s) == <<Len(s)>> \o s

\* #[derive(PartialEq)]: element-wise equality of the two Vecs.
bag_eq(a, b) == Len(a) = Len(b) /\ \A i \in DOMAIN a : a[i] = b[i]

----------------------------------------------------------------------------
\* src/src/lib.rs: HISet<T>, the copy at the crate root

lib_new == <<>>

\* HISet::insert
lib_insert(s, x) ==
    { IF r.ok THEN Out(s, RBool(TRUE)) ELSE Out(VecInsert(s, r.i, x), RBool(FALSE))
      : r \in binary_search(s, x) }

\* HISet::remove
lib_remove(s, x) ==
    { IF r.ok THEN Out(VecRemove(s, r.i), RSome(s[r.i + 1])) ELSE Out(s, RNone)
      : r \in binary_search(s, x) }

\* HISet::contains
lib_contains(s, x) == { Out(s, RBool(r.ok)) : r \in binary_search(s, x) }

\* HISet::len
lib_len(s) == Len(s)

\* HISet::iter
lib_iter(s) == s

\* HISet::remove_index
lib_remove_index(s, i) ==
    IF i < Len(s) THEN Out(VecRemove(s, i), RVal(s[i + 1])) ELSE Out(s, RPanic)

\* HISet::get_index
lib_get_index(s, i) ==
    IF i < Len(s) THEN Out(s, RRef(s[i + 1])) ELSE Out(s, RPanic)

\* HISet::get_index_mut: returns a shared reference (&T).
lib_get_index_mut(s, i) ==
    IF i < Len(s) THEN Out(s, RRef(s[i + 1])) ELSE Out(s, RPanic)

\* Index<usize>::index
lib_index(s, i) ==
    IF i < Len(s) THEN Out(s, RRef(s[i + 1])) ELSE Out(s, RPanic)

\* IndexMut<usize>::index_mut followed by the caller's store: set[i] = v.
lib_index_mut(s, i, v) ==
    IF i < Len(s) THEN Out([s EXCEPT ![i + 1] = v], RUnit) ELSE Out(s, RPanic)

\* #[derive(Hash)]
lib_hash(s) == <<Len(s)>> \o s

\* #[derive(PartialEq)]
lib_eq(a, b) == Len(a) = Len(b) /\ \A i \in DOMAIN a : a[i] = b[i]

----------------------------------------------------------------------------
\* The caller: one container of one of the three types, called again and again

Kinds == { "HISet", "HIBag", "LibHISet" }
SetKinds == { "HISet", "LibHISet" }

NoCall == [op |-> "new", arg |-> 0, idx |-> -1, src |-> <<>>, ret |-> RUnit, pre |-> <<>>]
NoRun == [stage |-> 0, base |-> <<>>]
NoFeed == [a |-> <<>>, b |-> <<>>, i |-> 0, j |-> 0]
NoNet == [v \in Values |-> 0]

\* The call op(...) returned outcome o: the Vec is o.items, the record of the call
\* keeps its arguments, its result and the Vec it was made on.
Returned(op, x, i, src, o) ==
    /\ items' = o.items
    /\ call' = [op |-> op, arg |-> x, idx |-> i, src |-> src, ret |-> o.ret, pre |-> items]
    /\ UNCHANGED <<kind, other, feed>>

\* The caller's tally after insert(x): a second insert(x) in a row is stage 2,
\* with the Vec as it was before the first of the two.
RunInsert(x) ==
    run' = IF call.op = "insert" /\ call.arg = x
           THEN [stage |-> 2, base |-> call.pre]
           ELSE [stage |-> 1, base |-> items]
\* ... and after a remove(x) that follows two insert(x): stage 3.
RunRemove(x) ==
    run' = IF run.stage = 2 /\ call.op = "insert" /\ call.arg = x
           THEN [stage |-> 3, base |-> run.base]
           ELSE NoRun

Dec(n) == IF n > 0 THEN n - 1 ELSE 0
\* A write through IndexMut voids the caller's tally: what the container holds is
\* no longer what was inserted. clear and from_iter start a new one.
VoidNet == [v \in Values |-> -1]
Tally(n) == net' = IF net = VoidNet THEN net ELSE n
TallyWrite(o) == net' = IF o.ret.tag = "panic" THEN net ELSE VoidNet
\* The caller's tally of a value taken out by remove_index.
NetTaken(o, isSet) ==
    Tally(IF o.ret.tag = "value"
          THEN [net EXCEPT ![o.ret.val] = IF isSet THEN 0 ELSE Dec(@)]
          ELSE net)

---- \* HISet (src/src/set.rs)

HISet_insert ==
    /\ kind = "HISet"
    /\ \E x \in Values : \E o \in set_insert(items, x) :
        /\ Len(o.items) <= MaxLen
        /\ Returned("insert", x, -1, <<>>, o)
        /\ Tally([net EXCEPT ![x] = 1])
        /\ RunInsert(x)

HISet_remove ==
    /\ kind = "HISet"
    /\ \E x \in Values : \E o \in set_remove(items, x) :
        /\ Returned("remove", x, -1, <<>>, o)
        /\ Tally([net EXCEPT ![x] = 0])
        /\ RunRemove(x)

HISet_contains ==
    /\ kind = "HISet"
    /\ \E x \in Values : \E o \in set_contains(items, x) :
        /\ Returned("contains", x, -1, <<>>, o)
        /\ UNCHANGED net
        /\ run' = NoRun

HISet_remove_index ==
    /\ kind = "HISet"
    /\ \E i \in Indices : LET o == set_remove_index(items, i) IN
        /\ Returned("remove_index", 0, i, <<>>, o)
        /\ NetTaken(o, TRUE)
        /\ run' = NoRun

HISet_get_index ==
    /\ kind = "HISet"
    /\ \E i \in Indices :
        /\ Returned("get_index", 0, i, <<>>, set_get_index(items, i))
        /\ UNCHANGED net
        /\ run' = NoRun

HISet_get_index_mut ==
    /\ kind = "HISet"
    /\ \E i \in Indices :
        /\ Returned("get_index_mut", 0, i, <<>>, set_get_index_mut(items, i))
        /\ UNCHANGED net
        /\ run' = NoRun

HISet_index ==
    /\ kind = "HISet"
    /\ \E i \in Indices :
        /\ Returned("index", 0, i, <<>>, set_index(items, i))
        /\ UNCHANGED net
        /\ run' = NoRun

HISet_clear ==
    /\ kind = "HISet"
    /\ Returned("clear", 0, -1, <<>>, set_clear(items))
    /\ net' = NoNet
    /\ run' = NoRun

\* let set: HISet<_> = src.into_iter().collect(); the new set replaces the old.
HISet_from_iter ==
    /\ kind = "HISet"
    /\ \E src \in SeqsUpTo(MaxLen) : \E s \in set_from_iter(src) :
        /\ items' = s
        /\ call' = [op |-> "from_iter", arg |-> 0, idx |-> -1, src |-> src,
                    ret |-> RUnit, pre |-> set_new]
        /\ net' = [v \in Values |-> IF v \in Range(src) THEN 1 ELSE 0]
        /\ run' = NoRun
        /\ UNCHANGED <<kind, other, feed>>

\* set[i] = v through IndexMut.
HISet_index_mut ==
    /\ kind = "HISet"
    /\ \E i \in Indices : \E v \in Values :
        /\ Returned("index_mut", v, i, <<>>, set_index_mut(items, i, v))
        /\ TallyWrite(set_index_mut(items, i, v))
        /\ run' = NoRun

---- \* HIBag (src/src/bag.rs)

HIBag_insert ==
    /\ kind = "HIBag"
    /\ \E x \in Values : \E o \in bag_insert(items, x) :
        /\ Len(o.items) <= MaxLen
        /\ Returned("insert", x, -1, <<>>, o)
        /\ Tally([net EXCEPT ![x] = @ + 1])
        /\ RunInsert(x)

HIBag_remove ==
    /\ kind = "HIBag"
    /\ \E x \in Values : \E o \in bag_remove(items, x) :
        /\ Returned("remove", x, -1, <<>>, o)
        /\ Tally([net EXCEPT ![x] = Dec(@)])
        /\ RunRemove(x)

HIBag_contains ==
    /\ kind = "HIBag"
    /\ \E x \in Values : \E o \in bag_contains(items, x) :
        /\ Returned("contains", x, -1, <<>>, o)
        /\ UNCHANGED net
        /\ run' = NoRun

HIBag_remove_index ==
    /\ kind = "HIBag"
    /\ \E i \in Indices : LET o == bag_remove_index(items, i) IN
        /\ Returned("remove_index", 0, i, <<>>, o)
        /\ NetTaken(o, FALSE)
        /\ run' = NoRun

HIBag_get_index ==
    /\ kind = "HIBag"
    /\ \E i \in Indices :
        /\ Returned("get_index", 0, i, <<>>, bag_get_index(items, i))
        /\ UNCHANGED net
        /\ run' = NoRun

HIBag_index ==
    /\ kind = "HIBag"
    /\ \E i \in Indices :
        /\ Returned("index", 0, i, <<>>, bag_index(items, i))
        /\ UNCHANGED net
        /\ run' = NoRun

\* let bag: HIBag<_> = src.into_iter().collect(); the new bag replaces the old.
HIBag_from_iter ==
    /\ kind = "HIBag"
    /\ \E src \in SeqsUpTo(MaxLen) : \E s \in bag_from_iter(src) :
        /\ items' = s
        /\ call' = [op |-> "from_iter", arg |-> 0, idx |-> -1, src |-> src,
                    ret |-> RUnit, pre |-> bag_new]
        /\ net' = [v \in Values |-> Count(src, v)]
        /\ run' = NoRun
        /\ UNCHANGED <<kind, other, feed>>

---- \* HISet of the crate root (src/src/lib.rs)

LibHISet_insert ==
    /\ kind = "LibHISet"
    /\ \E x \in Values : \E o \in lib_insert(items, x) :
        /\ Len(o.items) <= MaxLen
        /\ Returned("insert", x, -1, <<>>, o)
        /\ Tally([net EXCEPT ![x] = 1])
        /\ RunInsert(x)

LibHISet_remove ==
    /\ kind = "LibHISet"
    /\ \E x \in Values : \E o \in lib_remove(items, x) :
        /\ Returned("remove", x, -1, <<>>, o)
        /\ Tally([net EXCEPT ![x] = 0])
        /\ RunRemove(x)

LibHISet_contains ==
    /\ kind = "LibHISet"
    /\ \E x \in Values : \E o \in lib_contains(items, x) :
        /\ Returned("contains", x, -1, <<>>, o)
        /\ UNCHANGED net
        /\ run' = NoRun

LibHISet_remove_index ==
    /\ kind = "LibHISet"
    /\ \E i \in Indices : LET o == lib_remove_index(items, i) IN
        /\ Returned("remove_index", 0, i, <<>>, o)
        /\ NetTaken(o, TRUE)
        /\ run' = NoRun

LibHISet_get_index ==
    /\ kind = "LibHISet"
    /\ \E i \in Indices :
        /\ Returned("get_index", 0, i, <<>>, lib_get_index(items, i))
        /\ UNCHANGED net
        /\ run' = NoRun

LibHISet_get_index_mut ==
    /\ kind = "LibHISet"
    /\ \E i \in Indices :
        /\ Returned("get_index_mut", 0, i, <<>>, lib_get_index_mut(items, i))
        /\ UNCHANGED net
        /\ run' = NoRun

LibHISet_index ==
    /\ kind = "LibHISet"
    /\ \E i \in Indices :
        /\ Returned("index", 0, i, <<>>, lib_index(items, i))
        /\ UNCHANGED net
        /\ run' = NoRun

\* set[i] = v through IndexMut.
LibHISet_index_mut ==
    /\ kind = "LibHISet"
    /\ \E i \in Indices : \E v \in Values :
        /\ Returned("index_mut", v, i, <<>>, lib_index_mut(items, i, v))
        /\ TallyWrite(lib_index_mut(items, i, v))
        /\ run' = NoRun

----------------------------------------------------------------------------
\* Spec: a container of any of the three types, started empty, under every
\* sequence of calls that keep to the documented use (no write through IndexMut).

Init ==
    /\ kind \in Kinds
    /\ items = <<>>
    /\ call = NoCall
    /\ net = NoNet
    /\ run = NoRun
    /\ other = <<>>
    /\ feed = NoFeed

Next ==
    \/ HISet_insert \/ HISet_remove \/ HISet_contains \/ HISet_remove_index
    \/ HISet_get_index \/ HISet_get_index_mut \/ HISet_index \/ HISet_clear
    \/ HISet_from_iter
    \/ HIBag_insert \/ HIBag_remove \/ HIBag_contains \/ HIBag_remove_index
    \/ HIBag_get_index \/ HIBag_index \/ HIBag_from_iter
    \/ LibHISet_insert \/ LibHISet_remove \/ LibHISet_contains
    \/ LibHISet_remove_index \/ LibHISet_get_index \/ LibHISet_get_index_mut
    \/ LibHISet_index

Spec == Init /\ [][Next]_vars

----------------------------------------------------------------------------
\* SpecMut: the two set types, with the positional write set[i] = v as well.

InitMut ==
    /\ kind \in SetKinds
    /\ items = <<>>
    /\ call = NoCall
    /\ net = NoNet
    /\ run = NoRun
    /\ other = <<>>
    /\ feed = NoFeed

NextMut ==
    \/ HISet_insert \/ HISet_remove \/ HISet_contains \/ HISet_remove_index
    \/ HISet_get_index \/ HISet_get_index_mut \/ HISet_index \/ HISet_clear
    \/ HISet_index_mut
    \/ LibHISet_insert \/ LibHISet_remove \/ LibHISet_contains
    \/ LibHISet_remove_index \/ LibHISet_get_index \/ LibHISet_get_index_mut
    \/ LibHISet_index \/ LibHISet_index_mut

SpecMut == InitMut /\ [][NextMut]_vars

----------------------------------------------------------------------------
\* SpecBuild: two containers of one type, each built by inserting a list of
\* values one at a time (hi_set!, from_iter, or insert calls written out).

\* insert of the type k.
InsertOf(k, s, x) ==
    CASE k = "HISet" -> set_insert(s, x)
      [] k = "HIBag" -> bag_insert(s, x)
      [] k = "LibHISet" -> lib_insert(s, x)

\* The second list: for a bag any reordering of the first; for a set any list of
\* the same values, in any order and with any of them repeated.
SameCollection(k, a, b) ==
    IF k = "HIBag" THEN \A v \in Values : Count(a, v) = Count(b, v)
    ELSE Range(a) = Range(b)

InitBuild ==
    /\ kind \in Kinds
    /\ items = <<>>
    /\ other = <<>>
    /\ call = NoCall
    /\ net = NoNet
    /\ run = NoRun
    /\ \E a \in SeqsUpTo(MaxLen) : \E b \in SeqsUpTo(MaxLen) :
        /\ SameCollection(kind, a, b)
        /\ feed = [a |-> a, b |-> b, i |-> 0, j |-> 0]

BuildFirst ==
    /\ feed.i < Len(feed.a)
    /\ \E o \in InsertOf(kind, items, feed.a[feed.i + 1]) : items' = o.items
    /\ feed' = [feed EXCEPT !.i = @ + 1]
    /\ UNCHANGED <<kind, call, net, run, other>>

BuildSecond ==
    /\ feed.j < Len(feed.b)
    /\ \E o \in InsertOf(kind, other, feed.b[feed.j + 1]) : other' = o.items
    /\ feed' = [feed EXCEPT !.j = @ + 1]
    /\ UNCHANGED <<kind, call, net, run, items>>

NextBuild == BuildFirst \/ BuildSecond

SpecBuild == InitBuild /\ [][NextBuild]_vars

----------------------------------------------------------------------------
\* The same method of whichever type the container is

ContainsOf(k, s, x) ==
    CASE k = "HISet" -> set_contains(s, x)
      [] k = "HIBag" -> bag_contains(s, x)
      [] k = "LibHISet" -> lib_contains(s, x)
LenOf(k, s) ==
    CASE k = "HISet" -> set_len(s) [] k = "HIBag" -> bag_len(s) [] k = "LibHISet" -> lib_len(s)
IterOf(k, s) ==
    CASE k = "HISet" -> set_iter(s) [] k = "HIBag" -> bag_iter(s) [] k = "LibHISet" -> lib_iter(s)
HashOf(k, s) ==
    CASE k = "HISet" -> set_hash(s) [] k = "HIBag" -> bag_hash(s) [] k = "LibHISet" -> lib_hash(s)
EqOf(k, a, b) ==
    CASE k = "HISet" -> set_eq(a, b) [] k = "HIBag" -> bag_eq(a, b) [] k = "LibHISet" -> lib_eq(a, b)

----------------------------------------------------------------------------
\* Properties

\* Some stored element compares equal to x.
Present(s, x) == \E i \in DOMAIN s : s[i] = x
\* t is s with the element at one index taken out.
OneRemoved(s, t) == \E i \in 0 .. (Len(s) - 1) : t = VecRemove(s, i)
\* Every copy of x in s sits in one run of adjacent indices.
Adjacent(s, x) ==
    \A i \in DOMAIN s : \A j \in DOMAIN s :
        (i < j /\ s[i] = x /\ s[j] = x) => \A k \in i .. j : s[k] = x
IndexReads == { "get_index", "get_index_mut", "index" }

\* C1 (sort invariant): after every call on a set or a bag, started empty or
\* built from any list of values, iteration yields the elements in
\* non-decreasing order: every adjacent pair satisfies items[i] <= items[i+1].
C1_SortInvariant ==
    LET it == IterOf(kind, items) IN
    /\ Len(it) = Len(items)
    /\ \A i \in 1 .. (Len(it) - 1) : it[i] <= it[i + 1]
\* A bag insert that had to place its item between two stored elements.
C1_Witness ==
    /\ kind = "HIBag" /\ call.op = "insert"
    /\ Len(call.pre) >= 2
    /\ call.pre[1] < call.arg /\ call.arg < call.pre[Len(call.pre)]

\* C2 (uniqueness): in every state of a set (of set.rs or lib.rs) no two stored
\* elements compare equal, the sequence is strictly ascending, and len() is the
\* number of distinct values contained.
C2_Uniqueness ==
    kind \in SetKinds =>
        /\ IsStrict(items)
        /\ LenOf(kind, items) = Cardinality(Range(items))
\* An insert of a value the set already held, into a set of two or more.
C2_Witness ==
    /\ kind = "HISet" /\ call.op = "insert"
    /\ Present(call.pre, call.arg) /\ Len(call.pre) >= 2

\* C3 (contents decide identity): once two containers of one type have been
\* built from the same collection of values fed in two orders (sets: with any
\* value repeated), they hold the same sequence, are equal and hash alike.
C3_OrderIndependent ==
    (feed.i = Len(feed.a) /\ feed.j = Len(feed.b)) =>
        /\ items = other
        /\ EqOf(kind, items, other)
        /\ HashOf(kind, items) = HashOf(kind, other)
\* Both built, from lists in different orders, three elements stored.
C3_Witness ==
    /\ feed.i = Len(feed.a) /\ feed.j = Len(feed.b)
    /\ feed.a # feed.b /\ Len(feed.a) = Len(feed.b)
    /\ Len(items) >= 3

\* C4 (set insert): insert(x) returns true exactly when x was already contained,
\* and then changes nothing; otherwise it returns false, len() grows by one, x
\* is contained and so is every element contained before. Two insert(x) in a
\* row on a set without x grow len() by one in total.
C4_SetInsert ==
    (kind \in SetKinds /\ call.op = "insert") =>
        LET x == call.arg
            was == Present(call.pre, x) IN
        /\ call.ret = RBool(was)
        /\ was => items = call.pre
        /\ ~was =>
            /\ LenOf(kind, items) = LenOf(kind, call.pre) + 1
            /\ Present(items, x)
            /\ \A y \in Range(call.pre) : Present(items, y)
        /\ (run.stage = 2 /\ ~Present(run.base, x)) =>
            /\ LenOf(kind, items) = LenOf(kind, run.base) + 1
            /\ call.ret = RBool(TRUE)
            /\ Present(items, x)
\* The second of two insert(x) in a row on a non-empty set that lacked x.
C4_Witness ==
    /\ kind = "HISet" /\ call.op = "insert" /\ run.stage = 2
    /\ ~Present(run.base, call.arg) /\ Len(run.base) >= 1

\* C5 (round-trip removal): remove(x) of a present x returns Some of an element
\* equal to x and shrinks len() by one; a set no longer contains x, a bag holds
\* one copy fewer; every other element keeps its count and its relative order.
C5_RemovePresent ==
    (call.op = "remove" /\ Present(call.pre, call.arg)) =>
        LET x == call.arg IN
        /\ call.ret = RSome(x)
        /\ LenOf(kind, items) = LenOf(kind, call.pre) - 1
        /\ Count(items, x) = Count(call.pre, x) - 1
        /\ \A y \in Values \ {x} : Count(items, y) = Count(call.pre, y)
        /\ OneRemoved(call.pre, items)
        /\ kind \in SetKinds => ContainsOf(kind, items, x) = { Out(items, RBool(FALSE)) }
\* A bag of three with two copies of x, one of them removed.
C5_Witness ==
    /\ kind = "HIBag" /\ call.op = "remove"
    /\ Count(call.pre, call.arg) = 2 /\ Len(call.pre) = 3

\* C6 (bag multiplicity): every bag insert(x) grows len() and the count of x by
\* one and leaves every other count alone, the copies of x adjacent; two in a
\* row grow len() by two; a remove(x) right after them shrinks len() by one and
\* leaves x contained, with exactly one copy when x was absent before.
C6_BagMultiplicity ==
    kind = "HIBag" =>
        LET x == call.arg IN
        /\ call.op = "insert" =>
            /\ call.ret = RUnit
            /\ LenOf(kind, items) = LenOf(kind, call.pre) + 1
            /\ Count(items, x) = Count(call.pre, x) + 1
            /\ \A y \in Values \ {x} : Count(items, y) = Count(call.pre, y)
            /\ Adjacent(items, x)
        /\ (call.op = "insert" /\ run.stage = 2) =>
            /\ LenOf(kind, items) = LenOf(kind, run.base) + 2
            /\ Count(items, x) = Count(run.base, x) + 2
            /\ \E i \in 1 .. (Len(items) - 1) : items[i] = x /\ items[i + 1] = x
        /\ (call.op = "remove" /\ run.stage = 3) =>
            /\ call.ret = RSome(x)
            /\ LenOf(kind, items) = LenOf(kind, run.base) + 1
            /\ Count(items, x) = Count(run.base, x) + 1
            /\ ContainsOf(kind, items, x) = { Out(items, RBool(TRUE)) }
\* insert(x), insert(x), remove(x) on a non-empty bag that lacked x.
C6_Witness ==
    /\ kind = "HIBag" /\ call.op = "remove" /\ run.stage = 3
    /\ Count(run.base, call.arg) = 0 /\ Len(run.base) >= 1
    /\ Count(items, call.arg) = 1

\* C7 (absence): remove(x) of a value that is not present returns None and
\* leaves the container as it was.
C7_RemoveAbsent ==
    (call.op = "remove" /\ ~Present(call.pre, call.arg)) =>
        /\ call.ret = RNone
        /\ items = call.pre
        /\ LenOf(kind, items) = LenOf(kind, call.pre)
\* remove of a value that lies between two stored elements.
C7_Witness ==
    /\ kind = "HISet" /\ call.op = "remove"
    /\ Len(call.pre) >= 2
    /\ call.pre[1] < call.arg /\ call.arg < call.pre[2]

\* C8 (bounds failure): get_index, get_index_mut, container[i] and remove_index
\* with i >= len() panic and leave the sequence unchanged; with i < len() they
\* do not panic and yield the element at exactly index i.
C8_Bounds ==
    call.op \in IndexReads \cup { "remove_index" } =>
        /\ call.idx >= LenOf(kind, call.pre) =>
            /\ call.ret = RPanic
            /\ items = call.pre
        /\ call.idx < LenOf(kind, call.pre) =>
            /\ call.ret.tag # "panic"
            /\ call.ret.val = call.pre[call.idx + 1]
            /\ call.op \in IndexReads => items = call.pre
            /\ call.op = "remove_index" => items = VecRemove(call.pre, call.idx)
\* remove_index(len()) on a non-empty set.
C8_Witness ==
    /\ kind = "HISet" /\ call.op = "remove_index"
    /\ call.idx = Len(call.pre) /\ Len(call.pre) >= 1
    /\ call.ret = RPanic

\* C9 (contains): contains(x) returns true exactly when some stored element
\* equals x, which is when the caller's tally says x was inserted and not
\* since removed (bag: inserted more often than removed), and changes nothing.
C9_Contains ==
    call.op = "contains" =>
        /\ items = call.pre
        /\ call.ret = RBool(Present(items, call.arg))
        /\ call.ret.flag <=> net[call.arg] > 0
\* contains(x) on a bag that stores two copies of x.
C9_Witness ==
    /\ kind = "HIBag" /\ call.op = "contains"
    /\ Count(items, call.arg) = 2 /\ call.ret.flag

\* C10 (positional write): set[i] = v with i < len() replaces exactly the
\* element at index i; nothing re-sorts or deduplicates, then or later: every
\* other call leaves the sequence as it was, takes one element out, puts one
\* in or (clear) empties it, so a call that takes nothing out leaves an
\* unsorted sequence unsorted and a repeated element repeated.
C10_WriteInPlace ==
    /\ (call.op = "index_mut" /\ call.idx < Len(call.pre)) =>
        /\ Len(items) = Len(call.pre)
        /\ items[call.idx + 1] = call.arg
        /\ \A j \in DOMAIN items : j # call.idx + 1 => items[j] = call.pre[j]
    /\ call.op \notin { "index_mut", "new", "clear" } =>
        \/ items = call.pre
        \/ OneRemoved(call.pre, items)
        \/ OneRemoved(items, call.pre)
    /\ (call.op \in IndexReads \cup { "insert", "contains" }) =>
        /\ ~IsSorted(call.pre) => ~IsSorted(items)
        /\ Cardinality(Range(call.pre)) < Len(call.pre) =>
               Cardinality(Range(items)) < Len(items)
\* An insert into a set that a write had left unsorted: it is unsorted still.
C10_Witness ==
    /\ kind = "HISet" /\ call.op = "insert"
    /\ ~IsSorted(call.pre) /\ Len(items) = Len(call.pre) + 1
    /\ ~IsSorted(items)

====
